---- MODULE Spec2Model ----
(* A model of objaverse/xl/__init__.py: the three entry points of the       *)
(* package (get_annotations, get_alignment_annotations, download_objects)   *)
(* over the four source downloaders it imports.  One behaviour of the model *)
(* is one call of one entry point.                                          *)
EXTENDS Integers, Sequences, FiniteSets, TLC

VARIABLES
    op,                  \* the entry point the caller invoked
    pc,                  \* "start" | "loop" | "done" | "raised"
    objects,             \* download_objects: the request table (a sequence of rows)
    params,              \* download_objects: download_dir, processes, handlers, kwargs
    remaining,           \* download_objects: sources of the set not yet iterated
    calls,               \* every SourceDownloader.download_objects call, in order
    downloaded_objects,  \* download_objects: the dict being assembled
    events,              \* callback invocations made by the downloaders, in order
    ann_params,          \* get_*annotations: download_dir, refresh
    requests,            \* every get_*annotations call made on a downloader
    annotations,         \* get_*annotations: the list of per-source tables
    returned,            \* <<>> until the entry point returns, then <<value>>
    error                \* <<>> until an exception leaves the entry point, then <<name>>

vars == <<op, pc, objects, params, remaining, calls, downloaded_objects,
          events, ann_params, requests, annotations, returned, error>>

-----------------------------------------------------------------------------
(* Bounds of the model. *)

MaxRows == 3        \* rows of a request table (Spec)
MaxArgRows == 2     \* rows of a request table (SpecArgs)
MaxAnnRows == 2     \* rows of one source's annotation table

-----------------------------------------------------------------------------
(* Values. Optional[x] is <<>> for None and <<x>> for a value. *)

None == <<>>

Some(x) == <<x>>

\* Mutant: the downloaders are kept in the alphabetical order of their keys.
downloaders_sorted == <<"github", "sketchfab", "smithsonian", "thingiverse">>

\* The downloaders dict, in insertion order (dict order is insertion order).
downloaders == <<"github", "thingiverse", "smithsonian", "sketchfab">>

DownloaderKeys == {downloaders[k] : k \in 1..Len(downloaders)}

\* The literal of download_objects.
all_sources == {"github", "thingiverse", "smithsonian", "sketchfab"}

\* Mutant: the allowlist also names thingiverse.
alignment_sources_wider == {"github", "sketchfab", "thingiverse"}

\* The literal of get_alignment_annotations.
alignment_sources == {"github", "sketchfab"}

\* The values of the source column in the request tables of the model: three
\* of the four sources, which the dispatcher treats alike, and a value that is
\* none of them.
SourceValues == {"github", "thingiverse", "sketchfab", "unknown_host"}

FileIdentifiers == {"a", "b"}

DeclaredHashes == {"h1"}

ContentHashes == {"h1", "h2"}

EmptyDict == [k \in {} |-> None]

-----------------------------------------------------------------------------
(* The caller's inputs. *)

\* A row of a request table: the columns download_objects needs.
Rows(ids) == [fileIdentifier : ids, source : SourceValues, sha256 : DeclaredHashes]

\* The data model's invariant of a request batch: fileIdentifier and source
\* together identify a row.
UniqueKeys(t) ==
    \A i, j \in DOMAIN t :
        (t[i].fileIdentifier = t[j].fileIdentifier /\ t[i].source = t[j].source)
            => i = j

Tables(n, ids) == {t \in UNION {[1..k -> Rows(ids)] : k \in 0..n} : UniqueKeys(t)}

\* The keyword defaults of download_objects' signature.
DefaultParams ==
    [download_dir |-> Some("~/.objaverse"), processes |-> None,
     handle_found_object |-> None, handle_modified_object |-> None,
     handle_missing_object |-> None, kwargs |-> {}]

\* The call of objaverse_download.py: processes=6 and save_repo_format='zip'.
\* (objaverse_download_2.py makes the same call without save_repo_format; it is
\* one of AllParams.)
ScriptParams ==
    {[DefaultParams EXCEPT !.processes = Some(6),
                           !.kwargs = {<<"save_repo_format", "zip">>}]}

\* Every combination of present and absent arguments.
AllParams ==
    [download_dir : {None, Some("~/.objaverse")},
     processes : {None, Some(6)},
     handle_found_object : {None, Some("on_found")},
     handle_modified_object : {None, Some("on_modified")},
     handle_missing_object : {None, Some("on_missing")},
     kwargs : {{}, {<<"save_repo_format", "zip">>}}]

AnnParams == [download_dir : {"~/.objaverse"}, refresh : BOOLEAN]

DefaultAnnParams == [download_dir |-> "~/.objaverse", refresh |-> FALSE]

-----------------------------------------------------------------------------
(* download_objects: the dispatcher's own computations. *)

\* set(objects["source"].unique().tolist())
Sources(objs) == {objs[k].source : k \in DOMAIN objs}

\* Mutant: the source check is left out.
ValidSourcesUnchecked(sources) == TRUE

\* sources.issubset(all_sources)
ValidSources(sources) == sources \subseteq all_sources

\* Mutant: only the first row of the source is selected.
PartitionFirstRow(objs, source) ==
    LET rows == SelectSeq(objs, LAMBDA r : r.source = source)
    IN  IF rows = <<>> THEN <<>> ELSE <<Head(rows)>>

\* objects[objects["source"] == source]: a boolean mask keeps the rows in order.
Partition(objs, source) == SelectSeq(objs, LAMBDA r : r.source = source)

\* Mutant: a download_dir of None is replaced by the default directory.
CallArgsDefaultDir(p) ==
    [download_dir |-> IF p.download_dir = None THEN Some("~/.objaverse")
                      ELSE p.download_dir,
     processes |-> p.processes,
     handle_found_object |-> p.handle_found_object,
     handle_modified_object |-> p.handle_modified_object,
     handle_missing_object |-> p.handle_missing_object,
     kwargs |-> p.kwargs]

\* The positional and keyword arguments of the downloader call after the
\* partition.
CallArgs(p) ==
    [download_dir |-> p.download_dir, processes |-> p.processes,
     handle_found_object |-> p.handle_found_object,
     handle_modified_object |-> p.handle_modified_object,
     handle_missing_object |-> p.handle_missing_object,
     kwargs |-> p.kwargs]

\* Mutant: keys already present are kept (setdefault instead of update).
UpdateKeepFirst(d, m) ==
    [k \in DOMAIN d \cup DOMAIN m |-> IF k \in DOMAIN d THEN d[k] ELSE m[k]]

\* Mutant: the dict is rebound to the last mapping instead of being updated.
UpdateReplace(d, m) == m

\* d.update(m): the keys of m overwrite those of d.
Update(d, m) ==
    [k \in DOMAIN d \cup DOMAIN m |-> IF k \in DOMAIN m THEN m[k] ELSE d[k]]

-----------------------------------------------------------------------------
(* A source downloader's download_objects, as its contract describes it:    *)
(* every row of the partition is retrieved, classified by its hash and      *)
(* reported to one handler; the rows retrieved are returned with a path.    *)

NotFound == "notfound"

\* What retrieving each row of a partition can give: not found, or content
\* with some hash.
Retrievals(partition) == [1..Len(partition) -> {NotFound} \cup ContentHashes]

Classify(row, got) ==
    IF got = NotFound THEN "missing"
    ELSE IF got = row.sha256 THEN "found" ELSE "modified"

\* A path scheme owned by the source.
LocalPath(source, id) == <<source, id>>

\* The mapping a downloader returns: the rows it retrieved, found or modified.
SourceDownloads(source, partition, got) ==
    [id \in {partition[k].fileIdentifier :
                k \in {j \in DOMAIN partition : got[j] # NotFound}}
        |-> LocalPath(source, id)]

\* The handler invocations of one call, one per row. An absent handler is the
\* no-op default: the row is classified and reported all the same.
Notifications(source, partition, got) ==
    [k \in DOMAIN partition |->
        [handler |-> Classify(partition[k], got[k]),
         source |-> source,
         fileIdentifier |-> partition[k].fileIdentifier,
         local_path |-> IF got[k] = NotFound THEN None
                        ELSE Some(LocalPath(source, partition[k].fileIdentifier)),
         new_sha256 |-> IF got[k] = NotFound THEN None ELSE Some(got[k]),
         old_sha256 |-> partition[k].sha256]]

\* The outcomes of one downloader call: it raises (a collaborator fault, or a
\* handler that throws), or it returns after retrieving every row.
DownloaderResults(source, partition) ==
    {[fault |-> TRUE, retrieved |-> <<>>, downloads |-> EmptyDict, notified |-> <<>>]}
    \cup
    {[fault |-> FALSE, retrieved |-> got,
      downloads |-> SourceDownloads(source, partition, got),
      notified |-> Notifications(source, partition, got)] :
        got \in Retrievals(partition)}

-----------------------------------------------------------------------------
(* download_objects: the steps. *)

\* Mutant: a failed downloader call is caught and its partition skipped.
DownloadStepSkip(d, result) ==
    IF result.fault
    THEN [pc |-> "loop", downloaded_objects |-> d, error |-> None]
    ELSE [pc |-> "loop", downloaded_objects |-> Update(d, result.downloads),
          error |-> None]

\* One iteration of the for loop: no try/except surrounds the call, so a
\* raise leaves the function; otherwise the returned mapping is merged.
DownloadStep(d, result) ==
    IF result.fault
    THEN [pc |-> "raised", downloaded_objects |-> d, error |-> Some("DownloaderFault")]
    ELSE [pc |-> "loop", downloaded_objects |-> Update(d, result.downloads),
          error |-> None]

\* The source check before the loop.
Validate ==
    /\ op = "download_objects"
    /\ pc = "start"
    /\ IF ValidSources(Sources(objects))
       THEN /\ pc' = "loop"
            /\ remaining' = Sources(objects)
            /\ downloaded_objects' = EmptyDict
            /\ error' = error
       ELSE /\ pc' = "raised"
            /\ error' = Some("ValueError")
            /\ UNCHANGED <<remaining, downloaded_objects>>
    /\ UNCHANGED <<op, objects, params, calls, events, ann_params, requests,
                   annotations, returned>>

\* for source in sources: a set is iterated in no particular order.
Dispatch ==
    /\ op = "download_objects"
    /\ pc = "loop"
    /\ \E source \in remaining :
        IF source \notin DownloaderKeys
        THEN /\ pc' = "raised"
             /\ error' = Some("KeyError")
             /\ remaining' = remaining \ {source}
             /\ UNCHANGED <<calls, events, downloaded_objects>>
        ELSE \E result \in DownloaderResults(source, Partition(objects, source)) :
                LET step == DownloadStep(downloaded_objects, result)
                IN  /\ calls' = Append(calls,
                            [source |-> source,
                             objects |-> Partition(objects, source),
                             args |-> CallArgs(params),
                             fault |-> result.fault,
                             retrieved |-> result.retrieved,
                             downloads |-> result.downloads])
                    /\ events' = events \o result.notified
                    /\ remaining' = remaining \ {source}
                    /\ pc' = step.pc
                    /\ downloaded_objects' = step.downloaded_objects
                    /\ error' = step.error
    /\ UNCHANGED <<op, objects, params, ann_params, requests, annotations, returned>>

\* return downloaded_objects
Return ==
    /\ op = "download_objects"
    /\ pc = "loop"
    /\ remaining = {}
    /\ pc' = "done"
    /\ returned' = Some(downloaded_objects)
    /\ UNCHANGED <<op, objects, params, remaining, calls, downloaded_objects,
                   events, ann_params, requests, annotations, error>>

-----------------------------------------------------------------------------
(* A source downloader's get_annotations and get_alignment_annotations, as  *)
(* the contract describes them: a table of the downloader's own source, or  *)
(* a failed fetch.                                                          *)

AnnotationRows(source) ==
    [fileIdentifier : FileIdentifiers, source : {source}, sha256 : DeclaredHashes]

AnnotationTables(source) ==
    UNION {[1..k -> AnnotationRows(source)] : k \in 0..MaxAnnRows}

FetchResults(source) ==
    {[fault |-> TRUE, table |-> <<>>]}
    \cup {[fault |-> FALSE, table |-> t] : t \in AnnotationTables(source)}

-----------------------------------------------------------------------------
(* get_annotations and get_alignment_annotations. *)

\* downloaders.values(): every downloader, in the dict's order.
AnnotationSources == downloaders

\* downloaders.items() filtered by `if source in {"github", "sketchfab"}`.
AlignmentSources == SelectSeq(downloaders, LAMBDA source : source \in alignment_sources)

RECURSIVE Concat(_)
\* pd.concat(annotations, ignore_index=True): the tables' rows appended in list
\* order and renumbered; nothing is dropped.
Concat(tables) ==
    IF tables = <<>> THEN <<>> ELSE Head(tables) \o Concat(Tail(tables))

\* Mutant: a failed fetch is caught and its source left out of the list.
FetchStepSkip(anns, result) ==
    IF result.fault
    THEN [pc |-> "loop", annotations |-> anns, error |-> None]
    ELSE [pc |-> "loop", annotations |-> Append(anns, result.table), error |-> None]

\* One element of the list comprehension: no try/except surrounds the call,
\* so a raise leaves the function; otherwise the table joins the list.
FetchStep(anns, result) ==
    IF result.fault
    THEN [pc |-> "raised", annotations |-> anns, error |-> Some("SourceUnavailable")]
    ELSE [pc |-> "loop", annotations |-> Append(anns, result.table), error |-> None]

\* The next downloader of `order` is asked for its table.
Fetch(order) ==
    /\ pc \in {"start", "loop"}
    /\ Len(requests) < Len(order)
    /\ LET source == order[Len(requests) + 1]
       IN  \E result \in FetchResults(source) :
             LET step == FetchStep(annotations, result)
             IN  /\ requests' = Append(requests,
                        [source |-> source,
                         download_dir |-> ann_params.download_dir,
                         refresh |-> ann_params.refresh,
                         fault |-> result.fault,
                         table |-> result.table])
                 /\ pc' = step.pc
                 /\ annotations' = step.annotations
                 /\ error' = step.error
    /\ UNCHANGED <<op, objects, params, remaining, calls, downloaded_objects,
                   events, ann_params, returned>>

\* return pd.concat(annotations, ignore_index=True)
ReturnConcat(order) ==
    /\ pc \in {"start", "loop"}
    /\ Len(requests) = Len(order)
    /\ pc' = "done"
    /\ returned' = Some(Concat(annotations))
    /\ UNCHANGED <<op, objects, params, remaining, calls, downloaded_objects,
                   events, ann_params, requests, annotations, error>>

GetAnnotationsFetch == op = "get_annotations" /\ Fetch(AnnotationSources)

GetAnnotationsReturn == op = "get_annotations" /\ ReturnConcat(AnnotationSources)

GetAlignmentFetch == op = "get_alignment_annotations" /\ Fetch(AlignmentSources)

GetAlignmentReturn == op = "get_alignment_annotations" /\ ReturnConcat(AlignmentSources)

-----------------------------------------------------------------------------
(* Specifications. *)

InitDownload(tables, paramset) ==
    /\ op = "download_objects"
    /\ objects \in tables
    /\ params \in paramset
    /\ ann_params = DefaultAnnParams

InitAnnotations ==
    /\ op \in {"get_annotations", "get_alignment_annotations"}
    /\ objects = <<>>
    /\ params = DefaultParams
    /\ ann_params \in AnnParams

InitLocals ==
    /\ pc = "start"
    /\ remaining = {}
    /\ calls = <<>>
    /\ downloaded_objects = EmptyDict
    /\ events = <<>>
    /\ requests = <<>>
    /\ annotations = <<>>
    /\ returned = None
    /\ error = None

\* The call of the repository's script, on every table of up to MaxRows rows.
Init ==
    /\ InitLocals
    /\ \/ InitDownload(Tables(MaxRows, FileIdentifiers), ScriptParams)
       \/ InitAnnotations

\* Every combination of arguments, on the tables of up to MaxArgRows rows.
InitArgs ==
    /\ InitLocals
    /\ \/ InitDownload(Tables(MaxArgRows, {"a"}), AllParams)
       \/ InitAnnotations

Next ==
    \/ Validate
    \/ Dispatch
    \/ Return
    \/ GetAnnotationsFetch
    \/ GetAnnotationsReturn
    \/ GetAlignmentFetch
    \/ GetAlignmentReturn

Spec == Init /\ [][Next]_vars

SpecArgs == InitArgs /\ [][Next]_vars

-----------------------------------------------------------------------------
(* Properties of download_objects. *)

EnumeratedSources == {"github", "thingiverse", "smithsonian", "sketchfab"}

Downloading == op = "download_objects"

HasInvalidSource == \E k \in DOMAIN objects : objects[k].source \notin EnumeratedSources

\* The indices of the rows of `source` in the request table.
RowsOf(source) == {k \in DOMAIN objects : objects[k].source = source}

\* p is the rows of `source`, each once and in the table's order: the indices
\* of those rows, taken in increasing order, give p.
IsExactPartition(p, source) ==
    /\ Len(p) = Cardinality(RowsOf(source))
    /\ \E f \in [1..Len(p) -> RowsOf(source)] :
        /\ \A i, j \in 1..Len(p) : i < j => f[i] < f[j]
        /\ \A i \in 1..Len(p) : p[i] = objects[f[i]]

CallsFor(source) == {i \in DOMAIN calls : calls[i].source = source}

\* C1: a request table with a source outside the enumerated set makes
\* download_objects raise the invalid-sources error (a ValueError), and no
\* downloader is called at any point, not even for the rows of valid sources.
C1_InvalidSourceRaisesBeforeDispatch ==
    (Downloading /\ HasInvalidSource) =>
        /\ calls = <<>>
        /\ returned = None
        /\ pc # "start" => (pc = "raised" /\ error = Some("ValueError"))

\* A table mixing a valid and an invalid source has raised.
C1_Witness ==
    /\ Downloading
    /\ pc = "raised"
    /\ error = Some("ValueError")
    /\ \E i, j \in DOMAIN objects :
        /\ objects[i].source \in EnumeratedSources
        /\ objects[j].source \notin EnumeratedSources

\* C2: when download_objects returns for a table of enumerated sources, each
\* source present has exactly one downloader call and no other source has
\* any; every call made carries exactly the rows of its source, in the
\* table's order.
C2_OneCallPerSourceWithExactPartition ==
    Downloading =>
        /\ \A i \in DOMAIN calls : IsExactPartition(calls[i].objects, calls[i].source)
        /\ \A source \in EnumeratedSources :
            /\ Cardinality(CallsFor(source)) <= 1
            /\ RowsOf(source) = {} => CallsFor(source) = {}
            /\ (pc = "done" /\ RowsOf(source) # {}) => Cardinality(CallsFor(source)) = 1

\* A returned call on a table whose first and third rows are of one source
\* and whose second row is of another.
C2_Witness ==
    /\ Downloading
    /\ pc = "done"
    /\ Len(objects) = 3
    /\ objects[1].source = objects[3].source
    /\ objects[1].source # objects[2].source
    /\ Len(calls) = 2
    /\ \E i \in DOMAIN calls : Len(calls[i].objects) = 2

ReturnedKeys == UNION {DOMAIN calls[i].downloads : i \in DOMAIN calls}

\* The last call that returned key k.
LastCallWith(k) ==
    CHOOSE i \in DOMAIN calls :
        /\ k \in DOMAIN calls[i].downloads
        /\ \A j \in DOMAIN calls : k \in DOMAIN calls[j].downloads => j <= i

\* C3: the map download_objects returns is the union of the mappings its
\* downloader calls returned: the same keys, each with the path of the last
\* dispatched source that returned it, and no identifier every downloader
\* omitted.
C3_ResultIsUnionLastWins ==
    (Downloading /\ pc = "done") =>
        /\ returned # None
        /\ DOMAIN returned[1] = ReturnedKeys
        /\ \A k \in ReturnedKeys :
            returned[1][k] = calls[LastCallWith(k)].downloads[k]
        /\ \A r \in DOMAIN objects :
            (\A i \in DOMAIN calls : objects[r].fileIdentifier \notin DOMAIN calls[i].downloads)
                => objects[r].fileIdentifier \notin DOMAIN returned[1]

\* A returned call in which two sources returned the same identifier with
\* different paths and another identifier was missing everywhere.
C3_Witness ==
    /\ Downloading
    /\ pc = "done"
    /\ \E i, j \in DOMAIN calls : \E k \in DOMAIN calls[i].downloads :
        /\ i < j
        /\ k \in DOMAIN calls[j].downloads
        /\ calls[i].downloads[k] # calls[j].downloads[k]
    /\ \E r \in DOMAIN objects : objects[r].fileIdentifier \notin ReturnedKeys

\* C8: every downloader call receives the caller's download_dir, processes,
\* three handlers and keyword options as the caller gave them, None and absent
\* ones included.
C8_ArgumentsForwardedUnchanged ==
    \A i \in DOMAIN calls :
        /\ calls[i].args.download_dir = params.download_dir
        /\ calls[i].args.processes = params.processes
        /\ calls[i].args.handle_found_object = params.handle_found_object
        /\ calls[i].args.handle_modified_object = params.handle_modified_object
        /\ calls[i].args.handle_missing_object = params.handle_missing_object
        /\ calls[i].args.kwargs = params.kwargs

\* Two sources were called with download_dir None, one handler present,
\* another absent, and a keyword option.
C8_Witness ==
    /\ Len(calls) = 2
    /\ params.download_dir = None
    /\ params.processes = None
    /\ params.handle_found_object # None
    /\ params.handle_missing_object = None
    /\ params.kwargs # {}

\* C9: a downloader call that fails ends download_objects with that failure:
\* it is the last call made, nothing is returned, and no later partition is
\* dispatched.
C9_DownloaderFailurePropagates ==
    \A i \in DOMAIN calls :
        calls[i].fault =>
            /\ i = Len(calls)
            /\ pc = "raised"
            /\ error = Some("DownloaderFault")
            /\ returned = None

\* The second of three partitions failed after the first returned a file.
C9_Witness ==
    /\ Len(calls) = 2
    /\ calls[2].fault
    /\ DOMAIN calls[1].downloads # {}
    /\ remaining # {}
    /\ pc = "raised"

\* The retrieval outcome of row r of the request table: what its source's
\* downloader got for it, in the call that carried it.
RetrievedFor(r) ==
    LET i == CHOOSE i \in DOMAIN calls : calls[i].source = objects[r].source
        j == CHOOSE j \in DOMAIN calls[i].objects : calls[i].objects[j] = objects[r]
    IN  calls[i].retrieved[j]

\* How often `handler` was invoked for row r.
Invocations(handler, r) ==
    Cardinality({e \in DOMAIN events :
        /\ events[e].handler = handler
        /\ events[e].source = objects[r].source
        /\ events[e].fileIdentifier = objects[r].fileIdentifier})

\* Row r is reported to `handler` once and to no other handler.
ReportedOnceTo(handler, r) ==
    \A h \in {"found", "modified", "missing"} :
        Invocations(h, r) = IF h = handler THEN 1 ELSE 0

\* The found and modified cases of the classification law for row r.
RetrievedLaw(r) ==
    LET got == RetrievedFor(r)
        id == objects[r].fileIdentifier
    IN  /\ got = objects[r].sha256 =>
            /\ ReportedOnceTo("found", r)
            /\ id \in DOMAIN returned[1]
        /\ (got # NotFound /\ got # objects[r].sha256) =>
            /\ ReportedOnceTo("modified", r)
            /\ \E e \in DOMAIN events :
                /\ events[e].handler = "modified"
                /\ events[e].source = objects[r].source
                /\ events[e].fileIdentifier = id
                /\ events[e].new_sha256 = Some(got)
                /\ events[e].old_sha256 = objects[r].sha256
            /\ id \in DOMAIN returned[1]

RECURSIVE MergeInOrder(_)
\* The map a run returns that dispatches the sources in `order`, given the
\* mappings the downloaders returned in this run.
MergeInOrder(order) ==
    IF order = <<>> THEN EmptyDict
    ELSE LET source == order[Len(order)]
             i == CHOOSE i \in DOMAIN calls : calls[i].source = source
         IN  Update(MergeInOrder(SubSeq(order, 1, Len(order) - 1)), calls[i].downloads)

\* The orders in which a set of sources can be iterated.
Orders(sources) ==
    {order \in [1..Cardinality(sources) -> sources] :
        \A i, j \in DOMAIN order : order[i] = order[j] => i = j}

DisjointDownloads ==
    \A i, j \in DOMAIN calls :
        i # j => DOMAIN calls[i].downloads \cap DOMAIN calls[j].downloads = {}

\* C10: when the mappings the downloaders returned have pairwise disjoint
\* keys, the map download_objects returns is the one every other dispatch
\* order of the same sources would have given.
C10_OrderIndependentWhenDisjoint ==
    (Downloading /\ pc = "done" /\ DisjointDownloads) =>
        \A order \in Orders(Sources(objects)) : MergeInOrder(order) = returned[1]

\* A returned call of two sources that returned files under different
\* identifiers.
C10_Witness ==
    /\ Downloading
    /\ pc = "done"
    /\ DisjointDownloads
    /\ Len(calls) = 2
    /\ \A i \in DOMAIN calls : DOMAIN calls[i].downloads # {}

-----------------------------------------------------------------------------
(* Properties of get_annotations and get_alignment_annotations. *)

Allowlisted == {"github", "sketchfab"}

\* The table the downloader of `source` returned in this call.
TableOf(source) ==
    LET i == CHOOSE i \in DOMAIN requests : requests[i].source = source
    IN  requests[i].table

\* C5: get_alignment_annotations asks only the github and sketchfab
\* downloaders for alignment annotations, and every row of the table it
\* returns has one of these two sources.
C5_AlignmentOnlyAllowlisted ==
    op = "get_alignment_annotations" =>
        /\ \A i \in DOMAIN requests : requests[i].source \in Allowlisted
        /\ pc = "done" =>
            \A k \in DOMAIN returned[1] : returned[1][k].source \in Allowlisted

\* get_alignment_annotations returned rows of both allowlisted sources.
C5_Witness ==
    /\ op = "get_alignment_annotations"
    /\ pc = "done"
    /\ Len(requests) = 2
    /\ \E j, k \in DOMAIN returned[1] :
        /\ returned[1][j].source = "github"
        /\ returned[1][k].source = "sketchfab"

\* C6: get_annotations returns the four sources' tables appended in the order
\* github, thingiverse, smithsonian, sketchfab: every row of every table, rows
\* that two sources share an identifier and hash with included.
C6_ConcatenationInFixedOrder ==
    (op = "get_annotations" /\ pc = "done") =>
        /\ Len(requests) = 4
        /\ \A source \in EnumeratedSources :
            Cardinality({i \in DOMAIN requests : requests[i].source = source}) = 1
        /\ returned[1] = TableOf("github") \o TableOf("thingiverse")
                            \o TableOf("smithsonian") \o TableOf("sketchfab")
        /\ Len(returned[1]) = Len(TableOf("github")) + Len(TableOf("thingiverse"))
                                + Len(TableOf("smithsonian")) + Len(TableOf("sketchfab"))

\* get_annotations returned a table in which thingiverse and sketchfab both
\* list the identifier github lists.
C6_Witness ==
    /\ op = "get_annotations"
    /\ pc = "done"
    /\ Len(TableOf("github")) = 1
    /\ Len(TableOf("thingiverse")) = 2
    /\ Len(TableOf("sketchfab")) = 1
    /\ TableOf("thingiverse")[2].fileIdentifier = TableOf("github")[1].fileIdentifier
    /\ TableOf("sketchfab")[1].fileIdentifier = TableOf("github")[1].fileIdentifier
    /\ Len(returned[1]) >= 4

\* C7: a failed annotation fetch of any source ends get_annotations with that
\* failure: no further source is asked and no table is returned, whatever the
\* earlier sources gave.
C7_FetchFailureFailsAggregate ==
    op = "get_annotations" =>
        \A i \in DOMAIN requests :
            requests[i].fault =>
                /\ i = Len(requests)
                /\ pc = "raised"
                /\ error = Some("SourceUnavailable")
                /\ returned = None

\* The third source's fetch failed after two sources had given rows.
C7_Witness ==
    /\ op = "get_annotations"
    /\ pc = "raised"
    /\ Len(requests) = 3
    /\ requests[3].fault
    /\ Len(requests[1].table) > 0
    /\ Len(requests[2].table) > 0

====
